---- MODULE Spec2Model ----
(***************************************************************************)
(* PVGeo/ubc/two_file_base.py: the UBC model appender (ModelAppenderBase)  *)
(* and the UBC mesh reader (ubcMeshReaderBase): its naming interface and   *)
(* its extent calculator.                                                  *)
(*                                                                         *)
(* Python strings are sequences of one-character strings, so that          *)
(* str.split('.') is computed and not assumed.  An optional value          *)
(* (None or a list) is None == <<>> or Some(x) == <<x>>.                   *)
(***************************************************************************)
EXTENDS Integers, Sequences, FiniteSets, TLC

\* ------------------------------------------------------------------ bounds
\* Longest list handed to the constructor (modelfiles=) or to AddModelFileName.
MaxListLen == 2
\* Largest timestep index the host requests.
MaxIdx == 3
\* Most integer tokens on the header line of a generated mesh file.
MaxHeaderTokens == 4
\* Most runs along one axis of a generated 2D mesh file.
MaxRuns == 2

\* ---------------------------------------------------------- input alphabets
\* Model file names: 'a.t.m' and 'b.d'.
Files == { <<"a", ".", "t", ".", "m">>, <<"b", ".", "d">> }

FileLists == UNION { [1..n -> Files] : n \in 0..MaxListLen }

\* Names a caller passes to SetDataName; <<>> is the empty string ''.
NameArgs == { <<>>, <<"x">> }

\* Upstream timestep lists the host input may carry (None: not time-aware).
UpstreamChoices == { <<>>, << <<10, 20>> >> }

DtChoices == { 2 }

\* Cell data already on the input grid: a set of <<name, values>> pairs.
InputChoices == { { << <<"m">>, <<0>> >> } }

\* The input of RequestInformation: a rectilinear grid or not, and its
\* GetExtent()[3].
GridChoices == { [rect |-> TRUE, e3 |-> 1], [rect |-> TRUE, e3 |-> 2],
                 [rect |-> FALSE, e3 |-> 1] }

\* ---------------------------------------------------------------- helpers
None == <<>>
Some(x) == <<x>>
IsNone(o) == Len(o) = 0
Val(o) == o[1]

Range(s) == { s[k] : k \in DOMAIN s }

RECURSIVE LastSegment(_)
\* s.split('.')[-1]: what follows the last '.', the whole string without one.
LastSegment(s) ==
    IF \E k \in DOMAIN s : s[k] = "."
    THEN LastSegment(SubSeq(s, (CHOOSE k \in DOMAIN s : s[k] = ".") + 1, Len(s)))
    ELSE s

\* The float array np.genfromtxt yields for a model file: one distinct array
\* per file on disk.
ubcModel3D(f) == IF f[1] = "a" THEN <<1, 2>> ELSE <<3, 4>>

VARIABLES
    modelFileNames,  \* self._modelFileNames
    dataname,        \* self.__dataname
    useExtName,      \* self.__useExtName
    models,          \* self._models
    needToRead,      \* self.__needToRead
    is3D,            \* self._is3D: "None", "True", "False"
    dt,              \* self.__dt
    timesteps,       \* self.__timesteps (optional)
    inTimesteps,     \* self.__inTimesteps (optional)
    rDataname,       \* reader: self.__dataname
    rUseExtName,     \* reader: self.__useExtName
    rSizeM,          \* reader: self.__sizeM (optional)
    meshFile,        \* reader: the content of the file GetMeshFileName() names
    npVersion,       \* np.__version__.split('.')[0:2] as <<major, minor>>
    rLast,           \* what the last _ReadExtent call did, as its caller observes it
    last             \* what the last call did, as its caller observes it

appVars == <<modelFileNames, dataname, useExtName, models, needToRead, is3D,
             dt, timesteps, inTimesteps>>
meshVars == <<rSizeM, meshFile, npVersion, rLast>>
readerVars == <<rDataname, rUseExtName, rSizeM, meshFile, npVersion, rLast>>
vars == <<modelFileNames, dataname, useExtName, models, needToRead, is3D,
          dt, timesteps, inTimesteps, rDataname, rUseExtName, rSizeM,
          meshFile, npVersion, rLast, last>>

\* The observation of one call.  sig: the last Modified signal the call
\* raised ("none" without one); result: "ok" or the exception that left the
\* call; read: RequestData's read step ("skipped", "ok", "failed");
\* placed/idx/input/output: its placement, requested index, input cell data
\* and output cell data.
Obs(op, sig, result) ==
    [op |-> op, sig |-> sig, result |-> result, read |-> "skipped",
     placed |-> FALSE, idx |-> 0, input |-> {}, output |-> {}]

\* ------------------------------------------------ ModelAppenderBase: pieces

\* Mutant: Modified never touches the flag.
ModifiedKeepsFlag(ntr, readAgain) == ntr

\* Mutant: Modified stores its argument without testing it.
ModifiedAssignsFlag(ntr, readAgain) == readAgain

\* Modified(readAgain): the needs-reread flag after the call.
Modified(ntr, readAgain) == IF readAgain THEN readAgain ELSE ntr

\* The Modified call as the pipeline sees it.
SigOf(readAgain) ==
    IF readAgain THEN "Modified(readAgain=True)" ELSE "Modified(readAgain=False)"

\* _helpers.updateTimeSteps(self, names, dt): index * dt, one per file.
updateTimeSteps(files, dtv) == [k \in 1..Len(files) |-> (k - 1) * dtv]

\* __SetInputTimesteps: list(ints) if ints is not None else [].
SetInputTimesteps(ints) == Some(IF IsNone(ints) THEN <<>> ELSE Val(ints))

\* __UpdateTimeSteps: the timestep table after the call; err when len() is
\* taken of an upstream list that is still None.
UpdateTimeSteps(files, inTs, ts, dtv) ==
    IF Len(files) > 0
    THEN IF IsNone(inTs)
         THEN [err |-> TRUE, ts |-> ts]
         ELSE IF Len(files) > Len(Val(inTs))
              THEN [err |-> FALSE, ts |-> Some(updateTimeSteps(files, dtv))]
              ELSE [err |-> FALSE, ts |-> ts]
    ELSE [err |-> FALSE, ts |-> ts]

\* AddModelFileName(fname) with a string: st is [files, ntr, sig].
AddOne(st, f) ==
    IF f \notin Range(st.files)
    THEN [files |-> Append(st.files, f),
          ntr |-> Modified(st.ntr, TRUE),
          sig |-> SigOf(TRUE)]
    ELSE st

RECURSIVE AddEach(_, _)
\* for f in fname: self.AddModelFileName(f)
AddEach(st, names) ==
    IF Len(names) = 0 THEN st ELSE AddEach(AddOne(st, Head(names)), Tail(names))

\* AddModelFileName(fname) with a list: every element, then Modified().
AddList(st, names) ==
    LET after == AddEach(st, names)
    IN  [files |-> after.files,
         ntr |-> Modified(after.ntr, TRUE),
         sig |-> SigOf(TRUE)]

\* GetModelFileNames(idx=0) then split('.')[-1], or the explicit name.
GetDataName(useExt, dn, files) ==
    IF useExt
    THEN IF Len(files) > 0
         THEN [err |-> FALSE, name |-> LastSegment(files[1])]
         ELSE [err |-> TRUE, name |-> <<>>]
    ELSE [err |-> FALSE, name |-> dn]

\* Mutant: the flag change asks for a reread.
SetUseExtensionAsNameRereads(flag, useExt, ntr) ==
    IF useExt # flag
    THEN [useExt |-> flag, ntr |-> Modified(ntr, TRUE), sig |-> SigOf(TRUE)]
    ELSE [useExt |-> useExt, ntr |-> ntr, sig |-> "none"]

\* SetUseExtensionAsName(flag): [useExt, ntr, sig] after the call.
SetUseExtensionAsNameEffect(flag, useExt, ntr) ==
    IF useExt # flag
    THEN [useExt |-> flag, ntr |-> Modified(ntr, FALSE), sig |-> SigOf(FALSE)]
    ELSE [useExt |-> useExt, ntr |-> ntr, sig |-> "none"]

\* Mutant: a new explicit name asks for a reread.
SetDataNameRereads(name, useExt, dn, ntr) ==
    IF name = <<>>
    THEN [useExt |-> TRUE, dn |-> dn,
          ntr |-> Modified(ntr, FALSE), sig |-> SigOf(FALSE)]
    ELSE IF dn # name
         THEN [useExt |-> FALSE, dn |-> name,
               ntr |-> Modified(ntr, TRUE), sig |-> SigOf(TRUE)]
         ELSE [useExt |-> useExt, dn |-> dn, ntr |-> ntr, sig |-> "none"]

\* SetDataName(name): [useExt, dn, ntr, sig] after the call.
SetDataNameEffect(name, useExt, dn, ntr) ==
    IF name = <<>>
    THEN [useExt |-> TRUE, dn |-> dn,
          ntr |-> Modified(ntr, FALSE), sig |-> SigOf(FALSE)]
    ELSE IF dn # name
         THEN [useExt |-> FALSE, dn |-> name,
               ntr |-> Modified(ntr, FALSE), sig |-> SigOf(FALSE)]
         ELSE [useExt |-> useExt, dn |-> dn, ntr |-> ntr, sig |-> "none"]

\* Mutant: the read step runs on every request.
ShouldReadAlways(ntr) == TRUE

\* RequestData: if self.__needToRead
ShouldRead(ntr) == ntr

\* Mutant: off by one, len(self._models) >= i.
ShouldPlaceAtOrBelow(mdls, i) == Len(mdls) >= i

\* RequestData: if len(self._models) > i
ShouldPlace(mdls, i) == Len(mdls) > i

\* _ReadUpFront of a concrete appender: a full read of the whole file set,
\* staged and swapped in only when every file was read; then CLEAN.
ReadUpFront(files, mdls, ntr, ok) ==
    IF ok
    THEN [ok |-> TRUE,
          models |-> [k \in 1..Len(files) |-> ubcModel3D(files[k])],
          ntr |-> FALSE]
    ELSE [ok |-> FALSE, models |-> mdls, ntr |-> ntr]

\* _PlaceOnMesh(output, idx=i): models[i] becomes the cell array of the
\* resolved dataset name, replacing an array of that name.
PlaceOnMesh(out, mdls, i, nm) ==
    IF (i + 1) \in DOMAIN mdls
    THEN IF nm.err
         THEN [result |-> "AttributeError", out |-> out]
         ELSE [result |-> "ok",
               out |-> { p \in out : p[1] # nm.name } \cup { <<nm.name, mdls[i + 1]>> }]
    ELSE [result |-> "IndexError", out |-> out]

\* Mutant: the read step's exception is caught and dropped.
RaisedSwallowed(readOk, placeResult) == placeResult

\* RequestData holds no try/except: an exception of the read step leaves it.
Raised(readOk, placeResult) == IF readOk THEN placeResult ELSE "PVGeoError"

\* RequestData(request, inInfo, outInfo) for requested index i, input cell
\* data pdi and a read that succeeds (ok) or raises: the appender's fields
\* and the observation after the call.
RequestDataEffect(i, pdi, ok, files, mdls, ntr, nm) ==
    LET rd == IF ShouldRead(ntr)
              THEN ReadUpFront(files, mdls, ntr, ok)
              ELSE [ok |-> TRUE, models |-> mdls, ntr |-> ntr]
        pl == IF rd.ok /\ ShouldPlace(rd.models, i)
              THEN PlaceOnMesh(pdi, rd.models, i, nm)
              ELSE [result |-> "ok", out |-> pdi]
    IN  [models |-> rd.models,
         ntr |-> rd.ntr,
         obs |-> [op |-> "RequestData", sig |-> "none",
                  result |-> Raised(rd.ok, pl.result),
                  read |-> IF ~ShouldRead(ntr) THEN "skipped"
                           ELSE IF rd.ok THEN "ok" ELSE "failed",
                  placed |-> rd.ok /\ ShouldPlace(rd.models, i),
                  idx |-> i, input |-> pdi, output |-> pl.out]]

\* ---------------------------------------------- ModelAppenderBase: actions

\* __init__(modelfiles=..., dataname=..., dt=...)
InitAppender ==
    /\ modelFileNames \in FileLists
    /\ dataname = <<"A">>
    /\ useExtName = TRUE
    /\ models = <<>>
    /\ needToRead = TRUE
    /\ is3D = "None"
    /\ dt \in DtChoices
    /\ timesteps = None
    /\ inTimesteps = None

NeedToReadQuery ==
    /\ last' = Obs("NeedToRead()", "none", "ok")
    /\ UNCHANGED <<appVars, readerVars>>

NeedToReadSet(flag) ==
    LET up == UpdateTimeSteps(modelFileNames, inTimesteps, timesteps, dt)
    IN  /\ needToRead' = flag
        /\ timesteps' = up.ts
        /\ last' = Obs("NeedToRead(flag)", "none",
                       IF up.err THEN "TypeError" ELSE "ok")
        /\ UNCHANGED <<modelFileNames, dataname, useExtName, models, is3D, dt,
                       inTimesteps, readerVars>>

ModifiedCall ==
    /\ needToRead' = Modified(needToRead, TRUE)
    /\ last' = Obs("Modified", SigOf(TRUE), "ok")
    /\ UNCHANGED <<modelFileNames, dataname, useExtName, models, is3D, dt,
                   timesteps, inTimesteps, readerVars>>

RequestData(i, pdi, ok) ==
    LET e == RequestDataEffect(i, pdi, ok, modelFileNames, models, needToRead,
                               GetDataName(useExtName, dataname, modelFileNames))
    IN  /\ ok \/ Len(modelFileNames) > 0
        /\ models' = e.models
        /\ needToRead' = e.ntr
        /\ last' = e.obs
        /\ UNCHANGED <<modelFileNames, dataname, useExtName, is3D, dt,
                       timesteps, inTimesteps, readerVars>>

RequestInformation(ints, pdi) ==
    LET its == SetInputTimesteps(ints)
        up == UpdateTimeSteps(modelFileNames, its, timesteps, dt)
    IN  /\ inTimesteps' = its
        /\ timesteps' = up.ts
        /\ is3D' = IF pdi.rect /\ pdi.e3 = 1 THEN "False" ELSE "True"
        /\ last' = Obs("RequestInformation", "none", "ok")
        /\ UNCHANGED <<modelFileNames, dataname, useExtName, models,
                       needToRead, dt, readerVars>>

GetTimestepValues(ints) ==
    /\ IF IsNone(timesteps)
       THEN /\ inTimesteps' = SetInputTimesteps(ints)
            /\ timesteps' = SetInputTimesteps(ints)
       ELSE UNCHANGED <<inTimesteps, timesteps>>
    /\ last' = Obs("GetTimestepValues", "none", "ok")
    /\ UNCHANGED <<modelFileNames, dataname, useExtName, models, needToRead,
                   is3D, dt, readerVars>>

ClearModels ==
    /\ modelFileNames' = <<>>
    /\ models' = <<>>
    /\ needToRead' = Modified(needToRead, TRUE)
    /\ last' = Obs("ClearModels", SigOf(TRUE), "ok")
    /\ UNCHANGED <<dataname, useExtName, is3D, dt, timesteps, inTimesteps,
                   readerVars>>

AddModelFileNameNone ==
    /\ last' = Obs("AddModelFileName(None)", "none", "ok")
    /\ UNCHANGED <<appVars, readerVars>>

AddModelFileNameStr(f) ==
    LET st == AddOne([files |-> modelFileNames, ntr |-> needToRead, sig |-> "none"], f)
    IN  /\ modelFileNames' = st.files
        /\ needToRead' = st.ntr
        /\ last' = Obs("AddModelFileName(str)", st.sig, "ok")
        /\ UNCHANGED <<dataname, useExtName, models, is3D, dt, timesteps,
                       inTimesteps, readerVars>>

AddModelFileNameList(names) ==
    LET st == AddList([files |-> modelFileNames, ntr |-> needToRead, sig |-> "none"], names)
    IN  /\ modelFileNames' = st.files
        /\ needToRead' = st.ntr
        /\ last' = Obs("AddModelFileName(list)", st.sig, "ok")
        /\ UNCHANGED <<dataname, useExtName, models, is3D, dt, timesteps,
                       inTimesteps, readerVars>>

SetUseExtensionAsName(flag) ==
    LET e == SetUseExtensionAsNameEffect(flag, useExtName, needToRead)
    IN  /\ useExtName' = e.useExt
        /\ needToRead' = e.ntr
        /\ last' = Obs("SetUseExtensionAsName", e.sig, "ok")
        /\ UNCHANGED <<modelFileNames, dataname, models, is3D, dt, timesteps,
                       inTimesteps, readerVars>>

SetDataName(name) ==
    LET e == SetDataNameEffect(name, useExtName, dataname, needToRead)
    IN  /\ useExtName' = e.useExt
        /\ dataname' = e.dn
        /\ needToRead' = e.ntr
        /\ last' = Obs("SetDataName", e.sig, "ok")
        /\ UNCHANGED <<modelFileNames, models, is3D, dt, timesteps,
                       inTimesteps, readerVars>>

GetDataNameCall ==
    LET nm == GetDataName(useExtName, dataname, modelFileNames)
    IN  /\ last' = Obs("GetDataName", "none",
                       IF nm.err THEN "AttributeError" ELSE "ok")
        /\ UNCHANGED <<appVars, readerVars>>

\* ------------------------------------------------ ubcMeshReaderBase: naming

ReaderSig == "Modified(readAgainMesh=False, readAgainModels=False)"

\* ubcMeshReaderBase.SetUseExtensionAsName(flag): [useExt, sig] after it.
ReaderSetUseExtensionAsNameEffect(flag, useExt) ==
    IF useExt # flag
    THEN [useExt |-> flag, sig |-> ReaderSig]
    ELSE [useExt |-> useExt, sig |-> "none"]

\* ubcMeshReaderBase.SetDataName(name): [useExt, dn, sig] after it.
ReaderSetDataNameEffect(name, useExt, dn) ==
    IF name = <<>>
    THEN [useExt |-> TRUE, dn |-> dn, sig |-> ReaderSig]
    ELSE IF dn # name
         THEN [useExt |-> FALSE, dn |-> name, sig |-> ReaderSig]
         ELSE [useExt |-> useExt, dn |-> dn, sig |-> "none"]

InitReader ==
    /\ rDataname = <<"D">>
    /\ rUseExtName = TRUE
    /\ rSizeM = None
    /\ rLast = [op |-> "__init__", path |-> "none", result |-> "ok", extent |-> <<>>]

ReaderSetUseExtensionAsName(flag) ==
    LET e == ReaderSetUseExtensionAsNameEffect(flag, rUseExtName)
    IN  /\ rUseExtName' = e.useExt
        /\ last' = Obs("Reader.SetUseExtensionAsName", e.sig, "ok")
        /\ UNCHANGED <<appVars, rDataname, meshVars>>

ReaderSetDataName(name) ==
    LET e == ReaderSetDataNameEffect(name, rUseExtName, rDataname)
    IN  /\ rUseExtName' = e.useExt
        /\ rDataname' = e.dn
        /\ last' = Obs("Reader.SetDataName", e.sig, "ok")
        /\ UNCHANGED <<appVars, meshVars>>

\* ------------------------------------------- ubcMeshReaderBase: mesh files

\* A line of a mesh file: its integer tokens, then '!' and comment text when
\* comment is TRUE.  A line without tokens is blank or pure comment.
Line(toks) == [data |-> toks, comment |-> FALSE]
CommentLine == [data |-> <<>>, comment |-> TRUE]

HeaderCounts == { 1, 4, 5, 6 }

\* Header lines: up to three cell counts, then further tokens 1.
Headers ==
    { h \in UNION { [1..n -> HeaderCounts] : n \in 1..MaxHeaderTokens } :
        \A k \in 4..Len(h) : h[k] = 1 }

\* A file whose first token line is h: optionally a comment line before it
\* and a comment behind it, optionally further lines after it.
Mesh3D(h, lead, tail) ==
    (IF lead THEN <<CommentLine>> ELSE <<>>)
    \o << [data |-> h, comment |-> lead] >>
    \o (IF tail THEN << Line(<<0, 0, 0>>), CommentLine, Line(<<10, 20>>) >> ELSE <<>>)

\* The run lines of one axis: 'origin width repeat', then 'width repeat'.
RunLines(reps) ==
    [k \in 1..Len(reps) |->
        IF k = 1 THEN Line(<<0, 10, reps[1]>>) ELSE Line(<<20, reps[k]>>)]

\* A 2D mesh file with the repeat counts xr along X and zr along Z.
Mesh2D(xr, zr, lead) ==
    (IF lead THEN <<CommentLine>> ELSE <<>>)
    \o << [data |-> <<Len(xr)>>, comment |-> lead] >>
    \o RunLines(xr)
    \o (IF lead THEN <<CommentLine>> ELSE <<>>)
    \o << Line(<<Len(zr)>>) >>
    \o RunLines(zr)

RepeatLists == UNION { [1..n -> {2, 3}] : n \in 1..MaxRuns }

MeshFiles ==
    { Mesh3D(h, lead, tail) :
        h \in Headers, lead \in BOOLEAN, tail \in BOOLEAN }
    \cup { Mesh2D(xr, zr, lead) : xr \in RepeatLists, zr \in RepeatLists, lead \in BOOLEAN }

\* numpy versions as <<major, minor>>: 1.9, 1.10, 1.26, 2.0, 2.3.
Versions == { <<1, 9>>, <<1, 10>>, <<1, 26>>, <<2, 0>>, <<2, 3>> }

\* ------------------------------------------ ubcMeshReaderBase: _ReadExtent

HasData(ln) == Len(ln.data) > 0

\* The rows np.genfromtxt(dtype=str, delimiter='\n', comments='!') keeps:
\* every line cut at '!', lines left empty dropped.
Retained(file) ==
    LET kept == SelectSeq(file, HasData)
    IN  [k \in 1..Len(kept) |-> kept[k].data]

\* np.genfromtxt(..., max_rows=maxRows) (0: no max_rows): at most maxRows
\* rows, squeezed, so that a single row comes back as a 0-d array.
genfromtxt(file, maxRows) ==
    LET all == Retained(file)
        rows == IF maxRows > 0 /\ Len(all) > maxRows
                THEN SubSeq(all, 1, maxRows) ELSE all
    IN  [dim |-> IF Len(rows) = 1 THEN 0 ELSE 1, items |-> rows]

\* _ReadExtent: if v[0] >= 1 and v[1] >= 10
UsesMaxRows(v) == v[1] >= 1 /\ v[2] >= 10

\* _ReadExtent: the first row, through msh.ravel()[0] on the max_rows=1
\* path and through genfromtxt(...)[0] on the whole-file path.
ReadHeader(file, v) ==
    IF UsesMaxRows(v)
    THEN [err |-> "none", path |-> "max_rows=1",
          line |-> genfromtxt(file, 1).items[1]]
    ELSE LET a == genfromtxt(file, 0)
         IN  IF a.dim = 0
             THEN [err |-> "IndexError", path |-> "whole file", line |-> <<>>]
             ELSE [err |-> "none", path |-> "whole file", line |-> a.items[1]]

\* int(line) of a row: a row of several tokens is no integer literal.
IntOfLine(ln) ==
    IF Len(ln) = 1 THEN [err |-> "none", val |-> ln[1]]
    ELSE [err |-> "ValueError", val |-> 0]

\* Mutant: every run line gives its second token as the repeat count.
genTupSecondToken(fl, sft, n) ==
    IF \E i \in 0..(n - 1) :
          \/ i + sft + 1 > Len(fl)
          \/ Len(fl[i + sft + 1]) < (IF i = 0 THEN 3 ELSE 2)
    THEN [err |-> "IndexError", pts |-> <<>>, disc |-> <<>>]
    ELSE [err |-> "none",
          pts |-> IF n = 0 THEN <<>>
                  ELSE <<fl[sft + 1][1]>> \o
                       [i \in 1..n |-> IF i = 1 THEN fl[sft + 1][2] ELSE fl[sft + i][1]],
          disc |-> [i \in 1..n |-> fl[sft + i][2]]]

\* _genTup(sft, n): rows sft .. sft+n-1 (counted from 0); the first is
\* 'origin width repeat', the others 'width repeat'.
genTup(fl, sft, n) ==
    IF \E i \in 0..(n - 1) :
          \/ i + sft + 1 > Len(fl)
          \/ Len(fl[i + sft + 1]) < (IF i = 0 THEN 3 ELSE 2)
    THEN [err |-> "IndexError", pts |-> <<>>, disc |-> <<>>]
    ELSE [err |-> "none",
          pts |-> IF n = 0 THEN <<>>
                  ELSE <<fl[sft + 1][1]>> \o
                       [i \in 1..n |-> IF i = 1 THEN fl[sft + 1][2] ELSE fl[sft + i][1]],
          disc |-> [i \in 1..n |-> IF i = 1 THEN fl[sft + 1][3] ELSE fl[sft + i][2]]]

Failed2D(e) == [err |-> e, xpts |-> <<>>, xdisc |-> <<>>, zpts |-> <<>>, zdisc |-> <<>>]

\* _ubcMesh2D_part(FileName)
ubcMesh2D_part(file) ==
    LET a == genfromtxt(file, 0)
        fl == a.items
    IN  IF a.dim = 0 THEN Failed2D("IndexError")
        ELSE LET nx == IntOfLine(fl[1])
             IN  IF nx.err # "none" THEN Failed2D(nx.err)
                 ELSE IF nx.val + 2 > Len(fl) THEN Failed2D("IndexError")
                 ELSE LET nz == IntOfLine(fl[nx.val + 2])
                      IN  IF nz.err # "none" THEN Failed2D(nz.err)
                          ELSE LET x == genTup(fl, 1, nx.val)
                                   z == genTup(fl, 2 + nx.val, nz.val)
                               IN  IF x.err # "none" THEN Failed2D(x.err)
                                   ELSE IF z.err # "none" THEN Failed2D(z.err)
                                   ELSE [err |-> "none", xpts |-> x.pts, xdisc |-> x.disc,
                                         zpts |-> z.pts, zdisc |-> z.disc]

RECURSIVE SumSeq(_)
\* np.sum(np.array(disc, dtype=int))
SumSeq(sq) == IF Len(sq) = 0 THEN 0 ELSE Head(sq) + SumSeq(Tail(sq))

\* Is3D() / Is2D() on a stored __sizeM
Is3D(sizeM) == Len(sizeM) >= 3
Is2D(sizeM) == Len(sizeM) = 1

\* _ReadExtent after self.__sizeM is set: the extent of the dialect.
ExtentOfHeader(sizeM, file) ==
    IF Len(sizeM) = 1
    THEN LET part == ubcMesh2D_part(file)
         IN  IF part.err # "none"
             THEN [result |-> part.err, extent |-> <<>>]
             ELSE [result |-> "ok",
                   extent |-> <<0, SumSeq(part.xdisc) + 1, 0, 1, 0, SumSeq(part.zdisc) + 1>>]
    ELSE IF Len(sizeM) >= 3
         THEN [result |-> "ok", extent |-> <<0, sizeM[1], 0, sizeM[2], 0, sizeM[3]>>]
         ELSE [result |-> "PVGeoError", extent |-> <<>>]

\* _ReadExtent(): the stored __sizeM and the observation after the call.
ReadExtentEffect(file, v, sizeM) ==
    LET h == ReadHeader(file, v)
        x == ExtentOfHeader(h.line, file)
    IN  IF h.err # "none"
        THEN [sizeM |-> sizeM,
              obs |-> [op |-> "_ReadExtent", path |-> h.path,
                       result |-> h.err, extent |-> <<>>]]
        ELSE [sizeM |-> Some(h.line),
              obs |-> [op |-> "_ReadExtent", path |-> h.path,
                       result |-> x.result, extent |-> x.extent]]

ReadExtent ==
    LET e == ReadExtentEffect(meshFile, npVersion, rSizeM)
    IN  /\ rSizeM' = e.sizeM
        /\ rLast' = e.obs
        /\ UNCHANGED <<appVars, rDataname, rUseExtName, meshFile, npVersion, last>>

\* The host allocates a rectilinear grid with the extent _ReadExtent
\* returned and hands it to the appender's RequestInformation.
HostRequestInformation(ints) ==
    /\ rLast.op = "_ReadExtent"
    /\ rLast.result = "ok"
    /\ RequestInformation(ints, [rect |-> TRUE, e3 |-> rLast.extent[4]])

\* ------------------------------------------------------------ specifications

Init ==
    /\ InitAppender
    /\ InitReader
    /\ meshFile = Mesh3D(<<4, 5, 6>>, FALSE, TRUE)
    /\ npVersion = <<1, 10>>
    /\ last = Obs("__init__", "none", "ok")

Next ==
    \/ \E ints \in UpstreamChoices, pdi \in GridChoices :
          RequestInformation(ints, pdi)
    \/ \E i \in 0..MaxIdx, pdi \in InputChoices, ok \in BOOLEAN : RequestData(i, pdi, ok)
    \/ NeedToReadQuery
    \/ \E flag \in BOOLEAN : NeedToReadSet(flag)
    \/ ModifiedCall
    \/ \E ints \in UpstreamChoices : GetTimestepValues(ints)
    \/ ClearModels
    \/ AddModelFileNameNone
    \/ \E f \in Files : AddModelFileNameStr(f)
    \/ \E names \in FileLists : AddModelFileNameList(names)
    \/ \E flag \in BOOLEAN : SetUseExtensionAsName(flag)
    \/ \E name \in NameArgs : SetDataName(name)
    \/ GetDataNameCall

\* The appender under every public operation, in any order.
Spec == Init /\ [][Next]_vars

NamingNext ==
    \/ \E f \in Files : AddModelFileNameStr(f)
    \/ ClearModels
    \/ \E i \in 0..MaxIdx, pdi \in InputChoices, ok \in BOOLEAN : RequestData(i, pdi, ok)
    \/ \E flag \in BOOLEAN : SetUseExtensionAsName(flag)
    \/ \E name \in NameArgs : SetDataName(name)
    \/ \E flag \in BOOLEAN : ReaderSetUseExtensionAsName(flag)
    \/ \E name \in NameArgs : ReaderSetDataName(name)

\* The naming interface of the appender and of the mesh reader, over an
\* appender that loads, caches and clears models.
NamingSpec == Init /\ [][NamingNext]_vars

ReaderInit ==
    /\ InitAppender
    /\ modelFileNames = << <<"a", ".", "t", ".", "m">> >>
    /\ InitReader
    /\ meshFile \in MeshFiles
    /\ npVersion \in Versions
    /\ last = Obs("__init__", "none", "ok")

ReaderNext ==
    \/ ReadExtent
    \/ \E ints \in UpstreamChoices : HostRequestInformation(ints)

\* The extent calculator on one mesh file under one numpy version, and the
\* appender's RequestInformation on the grid allocated from its result.
ReaderSpec == ReaderInit /\ [][ReaderNext]_vars

\* ------------------------------------------------------------------ claims

ReadAll(files) == [k \in 1..Len(files) |-> ubcModel3D(files[k])]

SameSetAndFlag == modelFileNames' = modelFileNames /\ needToRead' = needToRead

\* C1 (as claimed): AddModelFileName with a name already in the file set,
\* as a string or inside a list whose names are all present, leaves the
\* set unchanged and the needs-reread flag as it was.
C1_DuplicateAddLeavesFlag ==
    [][ /\ \A f \in Files :
              (f \in Range(modelFileNames) /\ AddModelFileNameStr(f)) => SameSetAndFlag
        /\ \A names \in FileLists :
              ( /\ names # <<>>
                /\ Range(names) \subseteq Range(modelFileNames)
                /\ AddModelFileNameList(names) ) => SameSetAndFlag ]_vars

\* C2: a request whose read step did not fail places exactly when the index
\* is below the number of loaded models (counted after the read); at or
\* beyond it nothing is placed, the output equals the copied input and the
\* request returns normally.  What is placed is models[i].
C2_PlacementIffInRange ==
    (last.op = "RequestData" /\ last.read # "failed") =>
        /\ last.placed <=> last.idx < Len(models)
        /\ last.placed =>
              /\ last.result = "ok"
              /\ \E p \in last.output : p[2] = models[last.idx + 1]
        /\ last.idx >= Len(models) =>
              /\ last.output = last.input
              /\ last.result = "ok"

C2_Witness ==
    /\ last.op = "RequestData"
    /\ last.read # "failed"
    /\ Len(models) > 0
    /\ last.idx >= Len(models)
    /\ last.output = last.input

\* C3: every step that changes the model file set, and every Modified()
\* signal, leaves the appender STALE.
C3_ChangeLeavesStale ==
    [][ (modelFileNames' # modelFileNames \/ last'.op = "Modified") => needToRead' ]_vars

C3_Witness ==
    /\ last.op = "AddModelFileName(str)"
    /\ last.sig = "Modified(readAgain=True)"
    /\ Len(models) > 0
    /\ needToRead

\* C4 (as claimed): a change of the naming flag on a CLEAN appender leaves
\* it STALE.
C4_NamingChangeMakesStale ==
    [][ (useExtName' # useExtName /\ ~needToRead) => needToRead' ]_vars

\* C4 (amended): a change of the naming flag raises Modified(readAgain=False)
\* and leaves the needs-reread flag as it was.
C4_NamingChangeKeepsFlag ==
    [][ (useExtName' # useExtName) =>
            /\ needToRead' = needToRead
            /\ last'.sig = "Modified(readAgain=False)" ]_vars

C4_Witness ==
    /\ last.op = "SetUseExtensionAsName"
    /\ last.sig = "Modified(readAgain=False)"
    /\ ~useExtName
    /\ ~needToRead
    /\ Len(models) > 0

\* C5: SetUseExtensionAsName and SetDataName only relabel.  On the appender
\* the file set, the cached models and the needs-reread flag are unchanged
\* and no reread is signalled; on the reader the Modified signal, when one
\* is raised, has the mesh and the model reread requests off.
C5_NamingOnlyRelabels ==
    [][ /\ last'.op \in {"SetUseExtensionAsName", "SetDataName"} =>
              /\ modelFileNames' = modelFileNames
              /\ models' = models
              /\ needToRead' = needToRead
              /\ last'.sig \in {"none", "Modified(readAgain=False)"}
        /\ last'.op \in {"Reader.SetUseExtensionAsName", "Reader.SetDataName"} =>
              /\ last'.sig \in {"none", "Modified(readAgainMesh=False, readAgainModels=False)"}
              /\ (rUseExtName' # rUseExtName \/ rDataname' # rDataname) =>
                    last'.sig # "none"
              /\ UNCHANGED appVars ]_vars

C5_Witness ==
    /\ last.op = "SetDataName"
    /\ last.sig = "Modified(readAgain=False)"
    /\ ~needToRead
    /\ Len(models) > 0
    /\ ~rUseExtName

C7_ReadIffStale ==
    [][ /\ last'.op = "RequestData" =>
              /\ (last'.read # "skipped") <=> needToRead
              /\ last'.read = "ok" =>
                    /\ ~needToRead'
                    /\ models' = ReadAll(modelFileNames)
              /\ last'.read = "skipped" => models' = models
              /\ last'.placed => \E p \in last'.output : p[2] = models'[last'.idx + 1]
        /\ ( /\ last.op = "RequestData"
             /\ last.result = "ok"
             /\ last'.op = "RequestData" ) => last'.read = "skipped" ]_vars

C7_Witness ==
    /\ last.op = "RequestData"
    /\ last.read = "skipped"
    /\ last.placed
    /\ ~needToRead
    /\ Len(models) = Len(modelFileNames)

\* C8: a read step that fails leaves RequestData with the error, the cached
\* arrays as they were, nothing placed and the appender STALE; the next
\* RequestData attempts the read again.
C8_FailedReadKeepsCache ==
    [][ /\ (last'.op = "RequestData" /\ last'.read = "failed") =>
              /\ last'.result = "PVGeoError"
              /\ models' = models
              /\ needToRead'
              /\ ~last'.placed
              /\ last'.output = last'.input
        /\ ( /\ last.op = "RequestData"
             /\ last.read = "failed"
             /\ last'.op = "RequestData" ) => last'.read # "skipped" ]_vars

C8_Witness ==
    /\ last.op = "RequestData"
    /\ last.read = "failed"
    /\ last.result = "PVGeoError"
    /\ Len(models) > 0
    /\ needToRead

\* C9 (as claimed): whenever needs-reread is false the cache holds exactly
\* the arrays of the current file set, one per file.
C9_CleanIsConsistent == ~needToRead => models = ReadAll(modelFileNames)

NoPathTwice(files) == \A j, k \in DOMAIN files : files[j] = files[k] => j = k

IsPrefix(s, t) == Len(s) <= Len(t) /\ SubSeq(t, 1, Len(s)) = s

\* C10 (as claimed): the file set never holds a path twice, from the
\* constructor on; a step only appends to it, or ClearModels empties it.
C10_UniqueAppendOnly ==
    /\ [] NoPathTwice(modelFileNames)
    /\ [][ \/ IsPrefix(modelFileNames, modelFileNames')
           \/ (last'.op = "ClearModels" /\ modelFileNames' = <<>>) ]_vars

\* What GetTimestepValues returns in the current state when the upstream
\* list is the one the last RequestInformation saw.
TimestepTable == IF IsNone(timesteps) THEN Val(inTimesteps) ELSE Val(timesteps)

\* C11 (as claimed): after every RequestInformation the timestep table has
\* exactly one time value per file of the model file set.
C11_OneTimePerFile ==
    last.op = "RequestInformation" => Len(TimestepTable) = Len(modelFileNames)

\* C12 (as claimed): after every RequestInformation the timestep table is
\* the upstream list when that list is non-empty and index * dt, one per
\* file, otherwise.
C12_UpstreamElseIndexTimesDt ==
    last.op = "RequestInformation" =>
        TimestepTable = IF Len(Val(inTimesteps)) > 0
                        THEN Val(inTimesteps)
                        ELSE [k \in 1..Len(modelFileNames) |-> (k - 1) * dt]

\* C13 (as claimed): SetDataName with a non-empty name, on the appender or
\* on the reader, leaves extension naming off, and the appender's
\* GetDataName then returns that name.
C13_SetDataNameTakesEffect ==
    [][ \A name \in NameArgs \ {<<>>} :
            /\ SetDataName(name) =>
                  /\ ~useExtName'
                  /\ GetDataName(useExtName', dataname', modelFileNames') =
                        [err |-> FALSE, name |-> name]
            /\ ReaderSetDataName(name) =>
                  /\ ~rUseExtName'
                  /\ rDataname' = name ]_vars

\* C19 (as claimed): GetDataName returns a name without raising in every
\* reachable state.
C19_GetDataNameNeverRaises ==
    last.op = "GetDataName" => last.result = "ok"

\* C20 (as claimed): NeedToRead(flag) with a boolean flag sets the flag and
\* returns without raising in every reachable state.
C20_NeedToReadNeverRaises ==
    last.op = "NeedToRead(flag)" => last.result = "ok"

\* C14: after _ReadExtent succeeded and the appender's RequestInformation
\* saw a grid allocated with the returned extent, the appender's is3D agrees
\* with the reader's dialect: True exactly when Is3D(), False exactly when
\* Is2D().
C14_DialectAgrees ==
    (last.op = "RequestInformation" /\ rLast.result = "ok") =>
        /\ (is3D = "True") <=> Is3D(Val(rSizeM))
        /\ (is3D = "False") <=> Is2D(Val(rSizeM))

\* The first retained line of the mesh file.
FirstRetained == Retained(meshFile)[1]

\* C15: for a mesh file whose first retained line has at least three
\* integers, _ReadExtent returns (0, ne, 0, nn, 0, nz) from its first three,
\* whatever else the file holds.
C15_Extent3D ==
    (rLast.op = "_ReadExtent" /\ Len(FirstRetained) >= 3) =>
        /\ rLast.result = "ok"
        /\ rLast.extent =
              <<0, FirstRetained[1], 0, FirstRetained[2], 0, FirstRetained[3]>>

\* The files Mesh2D builds, with their repeat counts.
Is2DFileOf(xr, zr) ==
    /\ Len(Retained(meshFile)) = Len(xr) + Len(zr) + 2
    /\ \E lead \in BOOLEAN : meshFile = Mesh2D(xr, zr, lead)

\* C16: for a valid 2D mesh file _ReadExtent returns
\* (0, sumX + 1, 0, 1, 0, sumZ + 1), sumX and sumZ being the sums of the
\* repeat counts of the X and Z run lines: the third token of an axis' first
\* run line, the second token of its later ones.
C16_Extent2D ==
    rLast.op = "_ReadExtent" =>
        \A xr \in RepeatLists, zr \in RepeatLists :
            Is2DFileOf(xr, zr) =>
                /\ rLast.result = "ok"
                /\ rLast.extent = <<0, SumSeq(xr) + 1, 0, 1, 0, SumSeq(zr) + 1>>
                /\ Is2D(Val(rSizeM))

\* Two X runs and two Z runs with repeats 2 and 3 were read as (0,6,0,1,0,6).
C16_Witness ==
    /\ rLast.op = "_ReadExtent"
    /\ Is2DFileOf(<<2, 3>>, <<3, 2>>)
    /\ rLast.extent = <<0, 6, 0, 1, 0, 6>>

\* C17: for a mesh file whose first retained line has exactly two integers,
\* _ReadExtent raises the 'File format not recognized' error and returns no
\* extent.
C17_TwoTokensUnrecognized ==
    (rLast.op = "_ReadExtent" /\ Len(FirstRetained) = 2) =>
        /\ rLast.result = "PVGeoError"
        /\ rLast.extent = <<>>

\* C18: on a 3D/OcTree mesh _ReadExtent takes the single-row path for every
\* numpy version of at least 1.10 as (major, minor), and the whole-file path
\* only below 1.10.
C18_SingleRowFrom110 ==
    (rLast.op = "_ReadExtent" /\ Len(FirstRetained) >= 3) =>
        (rLast.path = "max_rows=1" <=>
            (npVersion[1] > 1 \/ (npVersion[1] = 1 /\ npVersion[2] >= 10)))

====
